---- MODULE Spec2Model ----
(***************************************************************************)
(* Model of svg-load: the path normaliser PathConvIter (svgload.rs), the   *)
(* document traversal load_svg (svgload.rs) and the paint records of       *)
(* RenderablePath (path.rs).                                               *)
(*                                                                         *)
(* SpecConv  drives PathConvIter::next over a bounded segment slice until  *)
(*           it returns None.                                              *)
(* SpecLoad  drives the node_edge loop of load_svg over every bounded      *)
(*           document tree.                                                *)
(***************************************************************************)
EXTENDS Integers, Sequences, FiniteSets, TLC

VARIABLES
    \* ---- PathConvIter (svgload.rs:166-172) and its consumer ----
    segs,        \* p.data: the segment slice the iterator walks
    pci,         \* the PathConvIter struct: iter, prev, first, needs_end, deferred
    events,      \* the events next() has returned so far, in order
    evsrc,       \* for each returned event, the index in segs of the segment
                 \* whose consumption produced it (Len(segs)+1: end of input)
    finished,    \* next() has returned None
    \* ---- load_svg (svgload.rs:10-116) ----
    open,        \* the nodes entered and not yet left (traversal position)
    node_edge,   \* the edge the loop body has just processed
    visited,     \* number of nodes entered so far
    transforms,  \* the transform stack
    gradients,   \* the gradient dictionary
    primitives,  \* the output vector
    size,        \* the size tuple
    status,      \* "init" | "running" | "traversed" | "returned" | "panicked"
    returned,    \* what the caller of load_svg received
    emitted,     \* for each pushed record: the node and pass that pushed it
    \* ---- Builder (ttfload.rs:106-209) ----
    calls,       \* the OutlineBuilder calls outline_glyph makes, in order
    builder,     \* the Builder struct: vec, needs_end, prev, first
    fed,         \* number of calls made so far
    builder_out, \* the events into_iter() handed to the tessellator
    \* ---- load_font (ttfload.rs:17-104) ----
    symbols,     \* the requested characters
    face,        \* the font file: unreadable, malformed, or a parsed face
    resolved,    \* number of characters the first loop has inserted
    g_map,       \* code point -> glyph id
    glyphs,      \* code point -> Glyph
    fstatus,     \* "init" | "resolving" | "building" | "returned" | "panicked"
    fresult,     \* what the caller of load_font received
    \* ---- RenderablePath constructors (path.rs:17-61) ----
    paint_in,    \* the arguments of the constructor call
    rpath        \* the record the constructor returned

convVars == <<segs, pci, events, evsrc, finished>>
loadVars == <<open, node_edge, visited, transforms, gradients, primitives,
              size, status, returned, emitted>>
builderVars == <<calls, builder, fed, builder_out>>
fontVars == <<symbols, face, resolved, g_map, glyphs, fstatus, fresult>>
paintVars == <<paint_in, rpath>>
vars == <<segs, pci, events, evsrc, finished, open, node_edge, visited,
          transforms, gradients, primitives, size, status, returned, emitted,
          calls, builder, fed, builder_out,
          symbols, face, resolved, g_map, glyphs, fstatus, fresult,
          paint_in, rpath>>

\* ------------------------------------------------------------------ bounds
MaxLen == 4
MaxCoord == 1

\* ------------------------------------------------------------------------
\* Path segments and events
\* ------------------------------------------------------------------------
NoEvent == [type |-> "None"]

point(x, y) == <<x, y>>

Origin == point(0, 0)

Coords == 1..MaxCoord

MoveToSegs == {[type |-> "MoveTo", x |-> x, y |-> y] : x \in Coords, y \in 0..1}

LineToSegs == {[type |-> "LineTo", x |-> x, y |-> y] : x \in Coords, y \in 0..1}

CurveToSegs ==
    {[type |-> "CurveTo", x1 |-> 5, y1 |-> 6, x2 |-> 7, y2 |-> 8, x |-> x, y |-> y] :
        x \in Coords, y \in 0..1}

ClosePathSegs == {[type |-> "ClosePath"]}

PathSegment == MoveToSegs \cup LineToSegs \cup CurveToSegs \cup ClosePathSegs

SegSeqs == UNION {[1..n -> PathSegment] : n \in 0..MaxLen}

Begin(at) == [type |-> "Begin", at |-> at]

Line(from, to) == [type |-> "Line", from |-> from, to |-> to]

Cubic(from, ctrl1, ctrl2, to) ==
    [type |-> "Cubic", from |-> from, ctrl1 |-> ctrl1, ctrl2 |-> ctrl2, to |-> to]

End(last, first, close) ==
    [type |-> "End", last |-> last, first |-> first, close |-> close]

\* ------------------------------------------------------------------------
\* PathConvIter
\* ------------------------------------------------------------------------
convert_path(data) ==
    [iter |-> 0, first |-> Origin, prev |-> Origin,
     deferred |-> NoEvent, needs_end |-> FALSE]

\* Each arm of next() maps the iterator to the updated iterator and the
\* returned event.
TakeDeferred(self) ==
    [self |-> [self EXCEPT !.deferred = NoEvent], ret |-> self.deferred]

\* OnMoveTo as it would be if the Begin were returned first and the End of
\* the old subpath deferred.
OnMoveTo_BeginFirst(self, seg) ==
    IF self.needs_end
    THEN LET p == point(seg.x, seg.y)
         IN [self |-> [self EXCEPT !.iter = @ + 1,
                                   !.needs_end = FALSE,
                                   !.prev = p,
                                   !.deferred = End(self.prev, self.first, FALSE),
                                   !.first = p],
             ret |-> Begin(p)]
    ELSE LET p == point(seg.x, seg.y)
         IN [self |-> [self EXCEPT !.iter = @ + 1,
                                   !.first = p,
                                   !.needs_end = TRUE],
             ret |-> Begin(p)]

OnMoveTo(self, seg) ==
    IF self.needs_end
    THEN LET last == self.prev
             first == self.first
             p == point(seg.x, seg.y)
         IN [self |-> [self EXCEPT !.iter = @ + 1,
                                   !.needs_end = FALSE,
                                   !.prev = p,
                                   !.deferred = Begin(p),
                                   !.first = p],
             ret |-> End(last, first, FALSE)]
    ELSE LET p == point(seg.x, seg.y)
         IN [self |-> [self EXCEPT !.iter = @ + 1,
                                   !.first = p,
                                   !.needs_end = TRUE],
             ret |-> Begin(p)]

OnLineTo(self, seg) ==
    LET from == self.prev
        p == point(seg.x, seg.y)
    IN [self |-> [self EXCEPT !.iter = @ + 1, !.needs_end = TRUE, !.prev = p],
        ret |-> Line(from, p)]

OnCurveTo(self, seg) ==
    LET from == self.prev
        p == point(seg.x, seg.y)
    IN [self |-> [self EXCEPT !.iter = @ + 1, !.needs_end = TRUE, !.prev = p],
        ret |-> Cubic(from, point(seg.x1, seg.y1), point(seg.x2, seg.y2), p)]

\* OnClosePath as it would be if the close left needs_end set.
OnClosePath_KeepsNeedsEnd(self) ==
    LET s1 == [self EXCEPT !.iter = @ + 1, !.prev = self.first]
    IN [self |-> s1, ret |-> End(s1.prev, s1.first, TRUE)]

OnClosePath(self) ==
    LET s1 == [self EXCEPT !.iter = @ + 1, !.needs_end = FALSE, !.prev = self.first]
    IN [self |-> s1, ret |-> End(s1.prev, s1.first, TRUE)]

OnNone(self) ==
    IF self.needs_end
    THEN [self |-> [self EXCEPT !.needs_end = FALSE],
          ret |-> End(self.prev, self.first, FALSE)]
    ELSE [self |-> self, ret |-> NoEvent]

\* self.iter.next(): the next segment of the slice, or None at its end.
iter_next(self, data) ==
    IF self.iter < Len(data) THEN data[self.iter + 1] ELSE [type |-> "None"]

PathConvIter_next(self, data) ==
    IF self.deferred # NoEvent
    THEN TakeDeferred(self)
    ELSE LET next == iter_next(self, data)
         IN CASE next.type = "MoveTo" -> OnMoveTo(self, next)
              [] next.type = "LineTo" -> OnLineTo(self, next)
              [] next.type = "CurveTo" -> OnCurveTo(self, next)
              [] next.type = "ClosePath" -> OnClosePath(self)
              [] OTHER -> OnNone(self)

\* One call of next() by the consumer of the event stream (the tessellator),
\* which stops pulling once None is returned.  src is the index of the
\* segment the returned event stems from.
Yield(r, src) ==
    /\ pci' = r.self
    /\ IF r.ret = NoEvent
       THEN /\ finished' = TRUE
            /\ UNCHANGED <<events, evsrc>>
       ELSE /\ events' = Append(events, r.ret)
            /\ evsrc' = Append(evsrc, src)
            /\ UNCHANGED finished
    /\ UNCHANGED <<segs>>
    /\ UNCHANGED loadVars
    /\ UNCHANGED <<builderVars, fontVars, paintVars>>

NextDeferred ==
    /\ ~finished
    /\ pci.deferred # NoEvent
    /\ Yield(PathConvIter_next(pci, segs), pci.iter)

NextMoveTo ==
    /\ ~finished
    /\ pci.deferred = NoEvent
    /\ iter_next(pci, segs).type = "MoveTo"
    /\ Yield(PathConvIter_next(pci, segs), pci.iter + 1)

NextLineTo ==
    /\ ~finished
    /\ pci.deferred = NoEvent
    /\ iter_next(pci, segs).type = "LineTo"
    /\ Yield(PathConvIter_next(pci, segs), pci.iter + 1)

NextCurveTo ==
    /\ ~finished
    /\ pci.deferred = NoEvent
    /\ iter_next(pci, segs).type = "CurveTo"
    /\ Yield(PathConvIter_next(pci, segs), pci.iter + 1)

NextClosePath ==
    /\ ~finished
    /\ pci.deferred = NoEvent
    /\ iter_next(pci, segs).type = "ClosePath"
    /\ Yield(PathConvIter_next(pci, segs), pci.iter + 1)

NextNone ==
    /\ ~finished
    /\ pci.deferred = NoEvent
    /\ iter_next(pci, segs).type = "None"
    /\ Yield(PathConvIter_next(pci, segs), pci.iter + 1)

\* ------------------------------------------------------------------------
\* Numbers: f64 values are modelled as exact fractions <<numerator,
\* denominator>> in lowest terms with a positive denominator.
\* ------------------------------------------------------------------------
RECURSIVE Gcd(_, _)
Gcd(a, b) == IF b = 0 THEN a ELSE Gcd(b, a % b)

Abs(n) == IF n < 0 THEN -n ELSE n

Frac(n, d) ==
    LET g == Gcd(Abs(n), Abs(d))
        sgn == IF d < 0 THEN -1 ELSE 1
    IN <<sgn * (n \div g), Abs(d) \div g>>

Num(n) == <<n, 1>>

FAdd(p, q) == Frac(p[1] * q[2] + q[1] * p[2], p[2] * q[2])

FMul(p, q) == Frac(p[1] * q[1], p[2] * q[2])

FNeg(p) == <<-p[1], p[2]>>

FInv(p) == Frac(p[2], p[1])

\* `x as u32` of a non-negative f64: truncation toward zero.
as_u32(p) == p[1] \div p[2]

\* ------------------------------------------------------------------------
\* usvg::Transform, as load_svg and RenderablePath use it
\* ------------------------------------------------------------------------
Transform(a, b, c, d, e, f) == [a |-> a, b |-> b, c |-> c, d |-> d, e |-> e, f |-> f]

Transform_default == Transform(Num(1), Num(0), Num(0), Num(1), Num(0), Num(0))

new_translate(x, y) == Transform(Num(1), Num(0), Num(0), Num(1), x, y)

new_scale(x, y) == Transform(x, Num(0), Num(0), y, Num(0), Num(0))

\* ts1.append(&ts2): ts1 becomes the product ts1 * ts2.
append(ts1, ts2) ==
    Transform(FAdd(FMul(ts1.a, ts2.a), FMul(ts1.c, ts2.b)),
              FAdd(FMul(ts1.b, ts2.a), FMul(ts1.d, ts2.b)),
              FAdd(FMul(ts1.a, ts2.c), FMul(ts1.c, ts2.d)),
              FAdd(FMul(ts1.b, ts2.c), FMul(ts1.d, ts2.d)),
              FAdd(FAdd(FMul(ts1.a, ts2.e), FMul(ts1.c, ts2.f)), ts1.e),
              FAdd(FAdd(FMul(ts1.b, ts2.e), FMul(ts1.d, ts2.f)), ts1.f))

apply(ts, x, y) ==
    <<FAdd(FAdd(FMul(x, ts.a), FMul(y, ts.c)), ts.e),
      FAdd(FAdd(FMul(x, ts.b), FMul(y, ts.d)), ts.f)>>

\* ------------------------------------------------------------------------
\* Option values
\* ------------------------------------------------------------------------
None == [some |-> FALSE]

Some(v) == [some |-> TRUE, v |-> v]

\* ------------------------------------------------------------------------
\* RenderablePath (path.rs)
\* ------------------------------------------------------------------------
U8 == 256

ColorDiv == 256

Channel(c) == Frac(c, ColorDiv)

from_color(sz, col, opacity, mesh) ==
    [size |-> sz,
     bgcolor |-> <<Channel(col[1]), Channel(col[2]), Channel(col[3]), opacity>>,
     gradient_stops |-> 0,
     gradient_colors |-> None,
     gradient_pos |-> None,
     gradient_start |-> None,
     gradient_end |-> None,
     vertices |-> mesh]

\* The stops of a gradient sorted by ascending offset.
SortedByOffset(stops) ==
    LET n == Len(stops)
        perm == CHOOSE f \in [1..n -> 1..n] :
                    /\ \A i, j \in 1..n : i # j => f[i] # f[j]
                    /\ \A i \in 1..(n - 1) :
                          stops[f[i]].offset[1] * stops[f[i + 1]].offset[2]
                              <= stops[f[i + 1]].offset[1] * stops[f[i]].offset[2]
    IN [i \in 1..n |-> stops[perm[i]]]

\* from_gradient as it would be if it sorted the stops by offset.
from_gradient_Sorted(sz, g, mesh, transform) ==
    LET n == Len(g.stops)
        sorted == SortedByOffset(g.stops)
        t == append(g.transform, transform)
        start == apply(t, g.x1, g.y1)
        end == apply(t, g.x2, g.y2)
    IN [size |-> sz,
        bgcolor |-> <<Num(1), Num(1), Num(1), Num(1)>>,
        gradient_stops |-> n % 256,
        gradient_colors |->
            Some([i \in 1..n |->
                    <<Frac(sorted[i].color[1], 256), Frac(sorted[i].color[2], 256),
                      Frac(sorted[i].color[3], 256), sorted[i].opacity>>]),
        gradient_pos |-> Some([i \in 1..n |-> sorted[i].offset]),
        gradient_start |-> Some(start),
        gradient_end |-> Some(end),
        vertices |-> mesh]

from_gradient(sz, g, mesh, transform) ==
    LET n == Len(g.stops)
        t == append(g.transform, transform)
        start == apply(t, g.x1, g.y1)
        end == apply(t, g.x2, g.y2)
    IN [size |-> sz,
        bgcolor |-> <<Num(1), Num(1), Num(1), Num(1)>>,
        gradient_stops |-> n % U8,
        gradient_colors |->
            Some([i \in 1..n |->
                    <<Channel(g.stops[i].color[1]), Channel(g.stops[i].color[2]),
                      Channel(g.stops[i].color[3]), g.stops[i].opacity>>]),
        gradient_pos |-> Some([i \in 1..n |-> g.stops[i].offset]),
        gradient_start |-> Some(start),
        gradient_end |-> Some(end),
        vertices |-> mesh]

RenderablePath_new(sz, mesh) ==
    [size |-> sz,
     bgcolor |-> <<Num(1), Num(1), Num(1), Num(1)>>,
     gradient_stops |-> 0,
     gradient_colors |-> None,
     gradient_pos |-> None,
     gradient_start |-> None,
     gradient_end |-> None,
     vertices |-> mesh]

\* ------------------------------------------------------------------------
\* load_svg helpers (svgload.rs)
\* ------------------------------------------------------------------------
\* primitive_from_paint as it would be if an unknown link fell back to a
\* transparent flat colour.
primitive_from_paint_FlatFallback(grads, sz, opacity, mesh_s, paint, transform) ==
    IF paint.type = "Color"
    THEN from_color(sz, paint.col, opacity, mesh_s)
    ELSE IF paint.link \in DOMAIN grads
         THEN from_gradient(sz, grads[paint.link], mesh_s, transform)
         ELSE from_color(sz, <<0, 0, 0>>, Num(0), mesh_s)

primitive_from_paint(grads, sz, opacity, mesh_s, paint, transform) ==
    IF paint.type = "Color"
    THEN from_color(sz, paint.col, opacity, mesh_s)
    ELSE IF paint.link \in DOMAIN grads
         THEN from_gradient(sz, grads[paint.link], mesh_s, transform)
         ELSE RenderablePath_new(sz, mesh_s)

VertexCtor(prim_id, transform) == [prim_id |-> prim_id, transform |-> transform]

new_vertex(ctor, position) ==
    [position |-> apply(ctor.transform, position[1], position[2]),
     prim_id |-> ctor.prim_id]

\* The tessellators are external: for a path they hand some raw positions to
\* the vertex constructor, one call of new_vertex each.  The fill pass and the
\* stroke pass of a path produce different positions.
FillPositions == <<<<Num(0), Num(0)>>, <<Num(2), Num(1)>>>>

StrokePositions == <<<<Num(0), Num(1)>>, <<Num(2), Num(2)>>>>

tessellate(positions, ctor) ==
    [i \in 1..Len(positions) |-> new_vertex(ctor, positions[i])]

\* ------------------------------------------------------------------------
\* Documents: the nodes a usvg tree can hold
\* ------------------------------------------------------------------------
MaxNodes == 3
MaxDepth == 3

ViewBoxes == {<<Num(0), Num(0), Num(2), Num(2)>>, <<Num(1), Num(1), Num(2), Num(4)>>}

SvgNodes ==
    {[kind |-> "Svg", size |-> <<Frac(5, 2), Num(3)>>, view_box |-> vb] : vb \in ViewBoxes}

GroupNodes ==
    {[kind |-> "Group", transform |-> t] :
        t \in {new_translate(Num(1), Num(0)), new_scale(Num(2), Num(1))}}

OtherNodes == {[kind |-> "Defs"], [kind |-> "Image"]}

GradIds == {"g1"}

Stop(offset, color, opacity) == [offset |-> offset, color |-> color, opacity |-> opacity]

StopLists ==
    {<<Stop(Frac(1, 2), <<255, 0, 0>>, Num(1)), Stop(Num(0), <<0, 0, 255>>, Frac(1, 2))>>,
     <<Stop(Num(0), <<0, 128, 0>>, Num(1)), Stop(Num(1), <<0, 0, 255>>, Num(1))>>}

GradientNodes ==
    {[kind |-> "LinearGradient", id |-> id, stops |-> st,
      transform |-> new_translate(Num(0), Num(1)),
      x1 |-> Num(0), y1 |-> Num(0), x2 |-> Num(1), y2 |-> Num(0)] :
        id \in GradIds, st \in StopLists}

FillPaints ==
    {[paint |-> [type |-> "Color", col |-> <<255, 0, 0>>], opacity |-> Num(1)],
     [paint |-> [type |-> "Link", link |-> "g1"], opacity |-> Num(1)]}

StrokePaints ==
    {[paint |-> [type |-> "Color", col |-> <<0, 0, 255>>], opacity |-> Frac(1, 2)],
     [paint |-> [type |-> "Link", link |-> "g1"], opacity |-> Frac(1, 2)]}

\* What the tessellators answer for a path: "ok", or an error of the fill pass
\* or of the stroke pass (only the passes the path has can fail).
TessOutcomes(fill, stroke) ==
    {"ok"} \cup (IF fill.some THEN {"fill_err"} ELSE {})
           \cup (IF fill.some /\ stroke.some THEN {"stroke_err"} ELSE {})

PathNodes ==
    {[kind |-> "Path", fill |-> fill, stroke |-> stroke,
      transform |-> new_translate(Num(0), Num(1)), tess |-> t] :
        fill \in {None} \cup {Some(f) : f \in FillPaints},
        stroke \in {None} \cup {Some(x) : x \in StrokePaints},
        t \in {"ok", "fill_err", "stroke_err"}}

PathNodesIn == {p \in PathNodes : p.tess \in TessOutcomes(p.fill, p.stroke)}

\* ------------------------------------------------------------------------
\* load_svg: the body of the node_edge loop, one operator per match arm.  st
\* is the loop state [transforms, gradients, primitives, size, status, pushed];
\* pushed logs, for the edge being processed, which pass each primitives.push
\* pushed.
\* ------------------------------------------------------------------------
Push(seq, x) == Append(seq, x)

Pop(seq) == IF Len(seq) = 0 THEN seq ELSE SubSeq(seq, 1, Len(seq) - 1)

ViewTransform(s) ==
    LET vb == s.view_box
        view0 == new_translate(FNeg(vb[1]), FNeg(vb[2]))
        view1 == append(view0, new_scale(FInv(vb[3]), FNeg(FInv(vb[4]))))
    IN [view1 EXCEPT !.f = FAdd(@, Num(1))]

SvgStart(st, s) ==
    [st EXCEPT !.size = <<as_u32(s.size[1]), as_u32(s.size[2])>>,
               !.transforms = Push(@, ViewTransform(s))]

LinearGradientStart(st, gradient) ==
    [st EXCEPT !.gradients =
        [id \in DOMAIN @ \cup {gradient.id} |->
            IF id = gradient.id THEN gradient ELSE @[id]]]

GroupStart(st, g) == [st EXCEPT !.transforms = Push(@, g.transform)]

\* GroupEnd as it would be without the pop.
GroupEnd_NoPop(st) == st

GroupEnd(st) == [st EXCEPT !.transforms = Pop(@)]

RECURSIVE AppendAll(_, _, _)
AppendAll(transform, ts, i) ==
    IF i > Len(ts) THEN transform ELSE AppendAll(append(transform, ts[i]), ts, i + 1)

\* PathTransform as it would be if the node's own transform were appended
\* before the stack.
PathTransform_OwnFirst(st, path) ==
    AppendAll(append(Transform_default, path.transform), st.transforms, 1)

\* The transform of a path node: the stack appended in order, then the node's
\* own transform.
PathTransform(st, path) ==
    append(AppendAll(Transform_default, st.transforms, 1), path.transform)

\* Panic as it would be if a tessellation error were ignored.
Panic_Ignored(st) == st

\* .expect(..) on a tessellation error: the thread panics.
Panic(st) == [st EXCEPT !.status = "panicked"]

\* The stroke block of the Path arm (svgload.rs:80-98).
StrokePass(st, path, transform) ==
    IF ~path.stroke.some
    THEN st
    ELSE IF path.tess = "stroke_err"
         THEN Panic(st)
         ELSE LET stroke == path.stroke.v
                  mesh_s == tessellate(StrokePositions,
                                       VertexCtor(Len(st.primitives), transform))
                  stoke_p == primitive_from_paint(st.gradients, st.size, stroke.opacity,
                                                  mesh_s, stroke.paint, transform)
              IN [st EXCEPT !.primitives = Push(@, stoke_p),
                            !.pushed = Append(@, "stroke")]

\* PathStart as it would be if the fill record were pushed before the stroke.
PathStart_FillFirst(st, path) ==
    LET transform == PathTransform(st, path)
    IN IF ~path.fill.some
       THEN st
       ELSE IF path.tess = "fill_err"
            THEN Panic(st)
            ELSE LET mesh == tessellate(FillPositions,
                                        VertexCtor(Len(st.primitives), transform))
                     rp == primitive_from_paint(st.gradients, st.size,
                                                path.fill.v.opacity, mesh,
                                                path.fill.v.paint, transform)
                     st1 == IF path.stroke.some /\ path.tess = "stroke_err"
                            THEN st
                            ELSE [st EXCEPT !.primitives = Push(@, rp),
                                            !.pushed = Append(@, "fill")]
                 IN StrokePass(st1, path, transform)

\* PathStart as it would be if a path without fill still got its stroke pass.
PathStart_StrokeOnly(st, path) ==
    LET transform == PathTransform(st, path)
        st1 == StrokePass(st, path, transform)
    IN IF ~path.fill.some \/ st1.status = "panicked"
       THEN st1
       ELSE LET mesh == tessellate(FillPositions,
                                   VertexCtor(Len(st.primitives), transform))
                rp == primitive_from_paint(st1.gradients, st1.size,
                                           path.fill.v.opacity, mesh,
                                           path.fill.v.paint, transform)
            IN [st1 EXCEPT !.primitives = Push(@, rp), !.pushed = Append(@, "fill")]

PathStart(st, path) ==
    LET transform == PathTransform(st, path)
    IN IF ~path.fill.some
       THEN st
       ELSE IF path.tess = "fill_err"
            THEN Panic(st)
            ELSE LET paint == path.fill.v.paint
                     mesh == tessellate(FillPositions,
                                        VertexCtor(Len(st.primitives), transform))
                     st1 == StrokePass(st, path, transform)
                 IN IF st1.status = "panicked"
                    THEN st1
                    ELSE LET rp == primitive_from_paint(st1.gradients, st1.size,
                                                        path.fill.v.opacity, mesh,
                                                        paint, transform)
                         IN [st1 EXCEPT !.primitives = Push(@, rp),
                                        !.pushed = Append(@, "fill")]

\* ------------------------------------------------------------------------
\* The traversal rtree.root().traverse(): Start and End edges of a tree,
\* depth first.  open holds the nodes entered and not yet left.
\* ------------------------------------------------------------------------
LoopState ==
    [transforms |-> transforms, gradients |-> gradients, primitives |-> primitives,
     size |-> size, status |-> status, pushed |-> <<>>]

Commit(st, edge) ==
    /\ transforms' = st.transforms
    /\ gradients' = st.gradients
    /\ primitives' = st.primitives
    /\ size' = st.size
    /\ status' = st.status
    /\ emitted' = emitted \o
          [i \in 1..Len(st.pushed) |-> [node |-> visited', pass |-> st.pushed[i]]]
    /\ node_edge' = edge
    /\ UNCHANGED returned
    /\ UNCHANGED convVars
    /\ UNCHANGED <<builderVars, fontVars, paintVars>>

Top == open[Len(open)]

IsContainer(n) == n.kind \in {"Svg", "Group", "Defs"}

CanEnter ==
    /\ status = "running"
    /\ Len(open) > 0
    /\ IsContainer(Top)
    /\ visited < MaxNodes
    /\ Len(open) <= MaxDepth

Enter(node) ==
    /\ open' = Append(open, node)
    /\ visited' = visited + 1

CanLeave(kinds) ==
    /\ status = "running"
    /\ Len(open) > 0
    /\ Top.kind \in kinds

Leave ==
    /\ open' = SubSeq(open, 1, Len(open) - 1)
    /\ UNCHANGED visited

Edge(start, node) == [start |-> start, kind |-> node.kind, node |-> node]

StartSvg ==
    /\ status = "init"
    /\ \E s \in SvgNodes :
          /\ open' = <<s>>
          /\ visited' = 0
          /\ Commit(SvgStart([LoopState EXCEPT !.status = "running"], s), Edge(TRUE, s))

EndSvg ==
    /\ CanLeave({"Svg"})
    /\ Leave
    /\ Commit([LoopState EXCEPT !.status = "traversed"], Edge(FALSE, Top))

StartGroup ==
    /\ CanEnter
    /\ \E g \in GroupNodes :
          /\ Enter(g)
          /\ Commit(GroupStart(LoopState, g), Edge(TRUE, g))

EndGroup ==
    /\ CanLeave({"Group"})
    /\ Leave
    /\ Commit(GroupEnd(LoopState), Edge(FALSE, Top))

StartLinearGradient ==
    /\ CanEnter
    /\ \E gradient \in GradientNodes :
          /\ Enter(gradient)
          /\ Commit(LinearGradientStart(LoopState, gradient), Edge(TRUE, gradient))

EndLinearGradient ==
    /\ CanLeave({"LinearGradient"})
    /\ Leave
    /\ Commit(LoopState, Edge(FALSE, Top))

StartPath ==
    /\ CanEnter
    /\ \E path \in PathNodesIn :
          /\ Enter(path)
          /\ Commit(PathStart(LoopState, path), Edge(TRUE, path))

EndPath ==
    /\ CanLeave({"Path"})
    /\ Leave
    /\ Commit(LoopState, Edge(FALSE, Top))

\* Defs, RadialGradient, ClipPath, Mask, Pattern, Filter, Image: empty arms.
StartOther ==
    /\ CanEnter
    /\ \E o \in OtherNodes :
          /\ Enter(o)
          /\ Commit(LoopState, Edge(TRUE, o))

EndOther ==
    /\ CanLeave({"Defs", "Image"})
    /\ Leave
    /\ Commit(LoopState, Edge(FALSE, Top))

\* The loop is over: load_svg returns primitives.
Return ==
    /\ status = "traversed"
    /\ status' = "returned"
    /\ returned' = Some(primitives)
    /\ UNCHANGED <<open, node_edge, visited, transforms, gradients, primitives,
                   size, emitted>>
    /\ UNCHANGED convVars
    /\ UNCHANGED <<builderVars, fontVars, paintVars>>

\* ------------------------------------------------------------------------
\* Builder (ttfload.rs): the OutlineBuilder that collects the events of a
\* glyph outline
\* ------------------------------------------------------------------------
MaxCalls == 3

QuadToSegs ==
    {[type |-> "QuadTo", x1 |-> 5, y1 |-> 6, x |-> x, y |-> y] : x \in Coords, y \in 0..1}

OutlineCall == PathSegment \cup QuadToSegs

CallSeqs == UNION {[1..n -> OutlineCall] : n \in 0..MaxCalls}

Quadratic(from, ctrl, to) == [type |-> "Quadratic", from |-> from, ctrl |-> ctrl, to |-> to]

Builder_new == [vec |-> <<>>, first |-> Origin, prev |-> Origin, needs_end |-> FALSE]

move_to(self, x, y) ==
    IF self.needs_end
    THEN LET last == self.prev
             first == self.first
         IN [self EXCEPT !.needs_end = FALSE,
                         !.prev = point(x, y),
                         !.first = point(x, y),
                         !.vec = @ \o <<End(last, first, FALSE), Begin(point(x, y))>>]
    ELSE [self EXCEPT !.first = point(x, y),
                      !.needs_end = TRUE,
                      !.vec = Append(@, Begin(point(x, y)))]

line_to(self, x, y) ==
    [self EXCEPT !.needs_end = TRUE,
                 !.prev = point(x, y),
                 !.vec = Append(@, Line(self.prev, point(x, y)))]

quad_to(self, x1, y1, x, y) ==
    [self EXCEPT !.needs_end = TRUE,
                 !.prev = point(x, y),
                 !.vec = Append(@, Quadratic(self.prev, point(x1, y1), point(x, y)))]

curve_to(self, x1, y1, x2, y2, x, y) ==
    [self EXCEPT !.needs_end = TRUE,
                 !.prev = point(x, y),
                 !.vec = Append(@, Cubic(self.prev, point(x1, y1), point(x2, y2),
                                         point(x, y)))]

close(self) ==
    [self EXCEPT !.needs_end = FALSE,
                 !.prev = self.first,
                 !.vec = Append(@, End(self.first, self.first, TRUE))]

into_iter(self) == self.vec

\* One call of outline_glyph on the builder.
Feed(type, b) ==
    /\ fed < Len(calls)
    /\ calls[fed + 1].type = type
    /\ builder' = b
    /\ fed' = fed + 1
    /\ UNCHANGED <<calls, builder_out>>
    /\ UNCHANGED <<convVars, loadVars, fontVars, paintVars>>

BuilderMoveTo ==
    /\ fed < Len(calls)
    /\ calls[fed + 1].type = "MoveTo"
    /\ Feed("MoveTo", move_to(builder, calls[fed + 1].x, calls[fed + 1].y))

BuilderLineTo ==
    /\ fed < Len(calls)
    /\ calls[fed + 1].type = "LineTo"
    /\ Feed("LineTo", line_to(builder, calls[fed + 1].x, calls[fed + 1].y))

BuilderQuadTo ==
    /\ fed < Len(calls)
    /\ calls[fed + 1].type = "QuadTo"
    /\ LET c == calls[fed + 1]
       IN Feed("QuadTo", quad_to(builder, c.x1, c.y1, c.x, c.y))

BuilderCurveTo ==
    /\ fed < Len(calls)
    /\ calls[fed + 1].type = "CurveTo"
    /\ LET c == calls[fed + 1]
       IN Feed("CurveTo", curve_to(builder, c.x1, c.y1, c.x2, c.y2, c.x, c.y))

BuilderClose ==
    /\ fed < Len(calls)
    /\ calls[fed + 1].type = "ClosePath"
    /\ Feed("ClosePath", close(builder))

\* outline_glyph has returned: the tessellator iterates the builder.
BuilderIntoIter ==
    /\ fed = Len(calls)
    /\ builder_out = None
    /\ builder_out' = Some(into_iter(builder))
    /\ UNCHANGED <<calls, builder, fed>>
    /\ UNCHANGED <<convVars, loadVars, fontVars, paintVars>>

BuilderIdle ==
    /\ calls = <<>>
    /\ builder = Builder_new
    /\ fed = 0
    /\ builder_out = None

FontIdle ==
    /\ symbols = <<>>
    /\ face = [kind |-> "unreadable"]
    /\ resolved = 0
    /\ g_map = <<>>
    /\ glyphs = <<>>
    /\ fstatus = "init"
    /\ fresult = None

PaintIdle ==
    /\ paint_in = [ctor |-> "new"]
    /\ rpath = None

LoadIdle ==
    /\ open = <<>>
    /\ node_edge = [start |-> FALSE, kind |-> "None"]
    /\ visited = 0
    /\ transforms = <<>>
    /\ gradients = <<>>
    /\ primitives = <<>>
    /\ size = <<1, 1>>
    /\ status = "init"
    /\ returned = None
    /\ emitted = <<>>

InitConv ==
    /\ segs \in SegSeqs
    /\ pci = convert_path(segs)
    /\ events = <<>>
    /\ evsrc = <<>>
    /\ finished = FALSE
    /\ LoadIdle
    /\ BuilderIdle
    /\ FontIdle
    /\ PaintIdle

NextConv ==
    \/ NextDeferred
    \/ NextMoveTo
    \/ NextLineTo
    \/ NextCurveTo
    \/ NextClosePath
    \/ NextNone

SpecConv == InitConv /\ [][NextConv]_vars

ConvIdle ==
    /\ segs = <<>>
    /\ pci = convert_path(segs)
    /\ events = <<>>
    /\ evsrc = <<>>
    /\ finished = FALSE

InitLoad == LoadIdle /\ ConvIdle /\ BuilderIdle /\ FontIdle /\ PaintIdle

NextLoad ==
    \/ StartSvg
    \/ EndSvg
    \/ StartGroup
    \/ EndGroup
    \/ StartLinearGradient
    \/ EndLinearGradient
    \/ StartPath
    \/ EndPath
    \/ StartOther
    \/ EndOther
    \/ Return

SpecLoad == InitLoad /\ [][NextLoad]_vars

InitBuilder ==
    /\ calls \in CallSeqs
    /\ builder = Builder_new
    /\ fed = 0
    /\ builder_out = None
    /\ ConvIdle
    /\ LoadIdle
    /\ FontIdle
    /\ PaintIdle

NextBuilder ==
    \/ BuilderMoveTo
    \/ BuilderLineTo
    \/ BuilderQuadTo
    \/ BuilderCurveTo
    \/ BuilderClose
    \/ BuilderIntoIter

SpecBuilder == InitBuilder /\ [][NextBuilder]_vars

\* The events a PathConvIter over data returns until it returns None.
RECURSIVE Drain(_, _)
Drain(self, data) ==
    LET r == PathConvIter_next(self, data)
    IN IF r.ret = NoEvent THEN <<>> ELSE <<r.ret>> \o Drain(r.self, data)

\* C16: fed the same move/line/cubic/close segments, the Builder and the
\* PathConvIter hand the tessellator the same events, also when the segments
\* end without a close.  (Stated for sequences that start with a move; the
\* code violates it: the Builder never ends a subpath left open at the end.)
C16_BuilderMatchesPathConvIter ==
    (/\ builder_out.some
     /\ Len(calls) > 0
     /\ calls[1].type = "MoveTo"
     /\ \A i \in 1..Len(calls) : calls[i].type # "QuadTo") =>
        builder_out.v = Drain(convert_path(calls), calls)


\* ------------------------------------------------------------------------
\* Properties of the path normaliser (checked under SpecConv)
\* ------------------------------------------------------------------------
EventIdx(type) == {k \in 1..Len(events) : events[k].type = type}

SegIdx(type) == {i \in 1..Len(segs) : segs[i].type = type}

\* Segment data as usvg hands it over: the first segment is a MoveTo and a
\* ClosePath is the last segment or is followed by a MoveTo.  The streams the
\* refuted statements below are refuted on are all of this shape.
WellFormed ==
    /\ Len(segs) > 0
    /\ segs[1].type = "MoveTo"
    /\ \A i \in SegIdx("ClosePath") : i = Len(segs) \/ segs[i + 1].type = "MoveTo"

BeginEnd == SelectSeq(events, LAMBDA e : e.type \in {"Begin", "End"})

\* C2: a stream with N MoveTo segments and no ClosePath yields, once it is
\* exhausted, exactly N Begin and N End events, every End with close = FALSE,
\* and no two adjacent Begin events.  (Stated for well-formed streams, which
\* the claim covers; the code violates it.)
C2_MovesBalanced ==
    (finished /\ WellFormed /\ SegIdx("ClosePath") = {}) =>
        /\ Cardinality(EventIdx("Begin")) = Cardinality(SegIdx("MoveTo"))
        /\ Cardinality(EventIdx("End")) = Cardinality(SegIdx("MoveTo"))
        /\ \A k \in EventIdx("End") : events[k].close = FALSE
        /\ \A k \in EventIdx("Begin") : (k + 1) \notin EventIdx("Begin")

\* C3: restricted to Begin and End, the events alternate Begin, End, Begin,
\* End, ..., and once the input is exhausted no Begin is left unmatched.
\* (Stated for well-formed streams; the code violates it.)
C3_BeginEndAlternate ==
    WellFormed =>
        /\ \A k \in 1..Len(BeginEnd) :
              BeginEnd[k].type = (IF k % 2 = 1 THEN "Begin" ELSE "End")
        /\ finished => Len(BeginEnd) % 2 = 0

\* The input has ended while a subpath is open: a MoveTo was consumed and no
\* ClosePath follows it.
LastMove ==
    CHOOSE m \in SegIdx("MoveTo") : \A j \in SegIdx("MoveTo") : j <= m

EndsOpen ==
    /\ finished
    /\ SegIdx("MoveTo") # {}
    /\ \A i \in SegIdx("ClosePath") : i < LastMove

\* C4: when the input ends while a subpath is open, the last event is
\* End(close = FALSE) with last = the target of the last segment consumed and
\* first = the point of the subpath's MoveTo.  (The code violates it.)
C4_TrailingEnd ==
    (EndsOpen /\ WellFormed) =>
        /\ Len(events) > 0
        /\ events[Len(events)] =
              End(point(segs[Len(segs)].x, segs[Len(segs)].y),
                  point(segs[LastMove].x, segs[LastMove].y),
                  FALSE)

\* The events produced by a ClosePath at index i that a consumed MoveTo
\* directly follows.
CloseThenMove(k) ==
    /\ segs[evsrc[k]].type = "ClosePath"
    /\ evsrc[k] < pci.iter
    /\ segs[evsrc[k] + 1].type = "MoveTo"

\* C8: a ClosePath directly followed by a MoveTo yields End(close = TRUE) and
\* directly after it Begin(at = the move's point), with no other End between.
C8_CloseThenBegin ==
    \A k \in 1..Len(events) :
        (evsrc[k] <= Len(segs) /\ CloseThenMove(k)) =>
            /\ events[k].type = "End"
            /\ events[k].close = TRUE
            /\ Len(events) > k
            /\ events[k + 1] =
                  Begin(point(segs[evsrc[k] + 1].x, segs[evsrc[k] + 1].y))

C8_Witness ==
    \E k \in 1..Len(events) :
        /\ WellFormed
        /\ evsrc[k] <= Len(segs)
        /\ CloseThenMove(k)
        /\ evsrc[k] > 2
        /\ events[k] = End(events[k].last, events[k].first, TRUE)
        /\ events[k + 1].type = "Begin"

\* C13: every Line or Cubic event starts where the event before it stands:
\* at the at of a directly preceding Begin, else at the to of the preceding
\* Line or Cubic.  (Stated for well-formed streams; the code violates it for a
\* subpath whose MoveTo is consumed while no End is owed.)
C13_SegmentsContinuous ==
    WellFormed =>
        \A k \in 1..Len(events) :
            events[k].type \in {"Line", "Cubic"} =>
                /\ k > 1
                /\ events[k - 1].type = "Begin" => events[k].from = events[k - 1].at
                /\ events[k - 1].type \in {"Line", "Cubic"} =>
                      events[k].from = events[k - 1].to

\* The MoveTo that opened the subpath segment i belongs to.
MoveBefore(i) ==
    CHOOSE m \in SegIdx("MoveTo") : m < i /\ \A j \in SegIdx("MoveTo") : j < i => j <= m

\* C14: the End of a ClosePath has close = TRUE, last = the current point
\* before the close (the target of the segment before it) and first = the
\* start point of the subpath.  (Stated for well-formed streams; the code
\* violates it: last is the start point.)
C14_CloseEndsAtCurrentPoint ==
    WellFormed =>
        \A k \in 1..Len(events) :
            (evsrc[k] <= Len(segs) /\ segs[evsrc[k]].type = "ClosePath") =>
                LET i == evsrc[k]
                IN events[k] =
                      End(point(segs[i - 1].x, segs[i - 1].y),
                          point(segs[MoveBefore(i)].x, segs[MoveBefore(i)].y),
                          TRUE)

EventsOf(evs, srcs, i) == {k \in 1..Len(evs) : srcs[k] = i}

\* C19, per step: no segment has produced more than two events; a segment
\* with two is a MoveTo and its events are End(close = FALSE) directly
\* followed by Begin; a pending event is what the next pull returns, and that
\* pull consumes no segment and leaves nothing pending.
C19_DeferredStep ==
    /\ \A i \in 1..(Len(segs) + 1) :
          LET ks == EventsOf(events', evsrc', i)
          IN /\ Cardinality(ks) <= 2
             /\ Cardinality(ks) = 2 =>
                   /\ i <= Len(segs)
                   /\ segs[i].type = "MoveTo"
                   /\ \E k \in ks :
                         /\ ks = {k, k + 1}
                         /\ events'[k].type = "End"
                         /\ events'[k].close = FALSE
                         /\ events'[k + 1] = Begin(point(segs[i].x, segs[i].y))
    /\ pci.deferred # NoEvent =>
          /\ events' = Append(events, pci.deferred)
          /\ pci'.iter = pci.iter
          /\ pci'.deferred = NoEvent
    /\ pci'.deferred # NoEvent =>
          /\ pci.deferred = NoEvent
          /\ pci'.iter = pci.iter + 1
          /\ segs[pci'.iter].type = "MoveTo"

\* C19: one segment produces at most two events, two only for a MoveTo that
\* ends an open subpath (End, then Begin); at most one event is pending and
\* the very next pull returns it before any further segment is consumed.
C19_AtMostOneDeferred == [][C19_DeferredStep]_vars

C19_Witness ==
    \E i \in 1..Len(segs) :
        /\ WellFormed
        /\ Cardinality(EventsOf(events, evsrc, i)) = 2
        /\ pci.deferred = NoEvent
        /\ pci.iter = i

\* ------------------------------------------------------------------------
\* Properties of load_svg (checked under SpecLoad)
\* ------------------------------------------------------------------------
PrimIds(r) == {r.vertices[k].prim_id : k \in 1..Len(r.vertices)}

\* The edge just processed is the Start edge of a path node.
AtPath == node_edge.start /\ node_edge.kind = "Path"

\* This step is the loop body processing the Start edge of a path node.
PathStep == visited' = visited + 1 /\ node_edge'.start /\ node_edge'.kind = "Path"

OpenGroups == SelectSeq(open, LAMBDA n : n.kind = "Group")

OpenScopes == SelectSeq(open, LAMBDA n : n.kind \in {"Svg", "Group"})

IsDefault(r) ==
    /\ r.gradient_stops = 0
    /\ r.gradient_pos = None
    /\ r.gradient_colors = None
    /\ r.gradient_start = None
    /\ r.gradient_end = None
    /\ r.bgcolor = <<Num(1), Num(1), Num(1), Num(1)>>

Unregistered(p, grads) == p.paint.type = "Link" /\ p.paint.link \notin DOMAIN grads

\* C1: for a path node with fill and stroke, the prim_id of the vertices of
\* the stroke record is less than that of the fill record, by exactly 1.
\* (The code violates it: both passes carry the same id.)
C1_StrokeIdBelowFillId ==
    \A i, j \in 1..Len(primitives) :
        (emitted[i].node = emitted[j].node
            /\ emitted[i].pass = "stroke" /\ emitted[j].pass = "fill") =>
            \A s \in PrimIds(primitives[i]), f \in PrimIds(primitives[j]) :
                s < f /\ f = s + 1

\* C5: the stroke record of a path node is pushed directly before the fill
\* record of the same node, nothing lies between them, and records appear in
\* the order their nodes are entered.
C5_StrokeBeforeFill ==
    /\ Len(emitted) = Len(primitives)
    /\ \A i \in 1..Len(emitted) :
          emitted[i].pass = "stroke" =>
              /\ i < Len(emitted)
              /\ emitted[i + 1] = [node |-> emitted[i].node, pass |-> "fill"]
    /\ \A i, j \in 1..Len(emitted) : i < j => emitted[i].node <= emitted[j].node
    /\ (AtPath /\ status = "running"
            /\ node_edge.node.fill.some /\ node_edge.node.stroke.some) =>
          LET n == Len(primitives)
              path == node_edge.node
          IN /\ n >= 2
             /\ emitted[n - 1] = [node |-> visited, pass |-> "stroke"]
             /\ emitted[n] = [node |-> visited, pass |-> "fill"]
             /\ path.stroke.v.paint.type = "Color" =>
                   primitives[n - 1].bgcolor[4] = path.stroke.v.opacity
             /\ path.fill.v.paint.type = "Color" =>
                   primitives[n].bgcolor[4] = path.fill.v.opacity

C5_Witness ==
    \E i \in 1..Len(emitted) :
        /\ i + 3 <= Len(emitted)
        /\ emitted[i].pass = "stroke"
        /\ emitted[i + 2].pass = "stroke"
        /\ emitted[i + 2].node > emitted[i].node
        /\ primitives[i].bgcolor # primitives[i + 1].bgcolor

\* C6 as claimed: the stack depth equals the number of viewport and group
\* scopes entered and not yet left, so the stack is empty once the root has
\* been left.  (Violated: the view transform is never popped.)
C6_DepthEqualsOpenScopes ==
    /\ Len(transforms) = Len(OpenScopes)
    /\ status \in {"traversed", "returned"} => transforms = <<>>

\* C6 as amended: the view transform pushed on entering the root stays at the
\* bottom of the stack for the rest of the load; above it the stack holds
\* exactly the transforms of the groups entered and not yet left, in the
\* order they were entered.  After the traversal the depth is 1.
C6_StackIsViewPlusOpenGroups ==
    /\ status = "init" => transforms = <<>>
    /\ status # "init" =>
          /\ Len(transforms) = 1 + Len(OpenGroups)
          /\ \A k \in 1..Len(OpenGroups) : transforms[k + 1] = OpenGroups[k].transform
    /\ status \in {"traversed", "returned"} => Len(transforms) = 1

C6_Witness ==
    /\ Len(open) = 3
    /\ open[2].kind = "Group"
    /\ open[3].kind = "Group"
    /\ open[2].transform # open[3].transform
    /\ Len(transforms) = 3

\* C7: a paint that links an identifier not in the dictionary when the path
\* node is entered gives a record with no stops, no stop lists, no start/end
\* point and background [1,1,1,1]; the load goes on; and no step (a later
\* registration included) changes a record already pushed.
C7_UnregisteredLinkStep ==
    /\ \A i \in 1..Len(primitives) :
          i <= Len(primitives') /\ primitives'[i] = primitives[i]
    /\ PathStep =>
          LET path == node_edge'.node
              n == Len(primitives')
          IN (path.fill.some /\ path.tess = "ok") =>
                /\ status' = "running"
                /\ n > Len(primitives)
                /\ Unregistered(path.fill.v, gradients) => IsDefault(primitives'[n])
                /\ (path.stroke.some /\ Unregistered(path.stroke.v, gradients)) =>
                      (n > Len(primitives) + 1 /\ IsDefault(primitives'[n - 1]))

\* C7: every step of the load keeps the pushed records and gives an
\* unregistered link the default record.
C7_UnregisteredLink == [][C7_UnregisteredLinkStep]_vars

C7_Witness ==
    /\ "g1" \in DOMAIN gradients
    /\ node_edge.kind = "LinearGradient"
    /\ \E i \in 1..Len(primitives) : IsDefault(primitives[i])

\* C9: a path node without fill appends nothing, also when it has a stroke;
\* a path node appends 1 record with fill and no stroke and 2 with both; no
\* path node changes the transform stack or the gradient dictionary.
C9_PathFrameStep ==
    PathStep =>
        LET path == node_edge'.node
            k == Len(primitives') - Len(primitives)
        IN /\ transforms' = transforms
           /\ gradients' = gradients
           /\ SubSeq(primitives', 1, Len(primitives)) = primitives
           /\ ~path.fill.some => (primitives' = primitives /\ status' = "running")
           /\ (path.fill.some /\ status' = "running") =>
                 k = (IF path.stroke.some THEN 2 ELSE 1)

\* C9: every step that enters a path node has the frame stated above.
C9_PathFrame == [][C9_PathFrameStep]_vars

C9_Witness ==
    /\ AtPath
    /\ ~node_edge.node.fill.some
    /\ node_edge.node.stroke.some
    /\ status = "running"
    /\ Len(primitives) > 0
    /\ Len(transforms) > 1

\* C10: once a tessellation has failed the load has failed as a whole: the
\* caller receives nothing, whatever was built for earlier nodes.
C10_FailureIsFatal ==
    /\ (AtPath /\ node_edge.node.tess # "ok") =>
          (status = "panicked" /\ returned = None)
    /\ status = "panicked" => returned = None
    /\ returned # None => (status = "returned" /\ returned = Some(primitives))

C10_Witness ==
    /\ status = "panicked"
    /\ Len(primitives) > 0
    /\ node_edge.node.tess = "stroke_err"

FLess(p, q) == p[1] * q[2] < q[1] * p[2]

StopColor(stop) ==
    <<Frac(stop.color[1], 256), Frac(stop.color[2], 256), Frac(stop.color[3], 256),
      stop.opacity>>

\* The record r lists the stops of gradient g in g's own order.
ListsStopsInOrder(r, g) ==
    /\ r.gradient_pos.some
    /\ r.gradient_colors.some
    /\ Len(r.gradient_pos.v) = Len(g.stops)
    /\ Len(r.gradient_colors.v) = Len(g.stops)
    /\ \A i \in 1..Len(g.stops) :
          /\ r.gradient_pos.v[i] = g.stops[i].offset
          /\ r.gradient_colors.v[i] = StopColor(g.stops[i])
    /\ r.bgcolor = <<Num(1), Num(1), Num(1), Num(1)>>

Registered(p, grads) == p.paint.type = "Link" /\ p.paint.link \in DOMAIN grads

C12_StopsInOrderStep ==
    PathStep =>
        LET path == node_edge'.node
            n == Len(primitives')
        IN (path.fill.some /\ path.tess = "ok") =>
              /\ Registered(path.fill.v, gradients) =>
                    ListsStopsInOrder(primitives'[n], gradients[path.fill.v.paint.link])
              /\ (path.stroke.some /\ Registered(path.stroke.v, gradients)) =>
                    ListsStopsInOrder(primitives'[n - 1],
                                      gradients[path.stroke.v.paint.link])

\* C12: a record made from a registered gradient lists the gradient's stop
\* offsets and stop colours in the gradient's own order, index by index, not
\* sorted by offset, and its background is [1,1,1,1].
C12_StopsInOrder == [][C12_StopsInOrderStep]_vars

C12_Witness ==
    \E i \in 1..Len(primitives) :
        /\ primitives[i].gradient_pos.some
        /\ Len(primitives[i].gradient_pos.v) = 2
        /\ FLess(primitives[i].gradient_pos.v[2], primitives[i].gradient_pos.v[1])

\* C15: the record at position i of the output (counted from 0) carries
\* prim_id i on all its vertices.  (The code violates it: the fill record
\* pushed after a stroke record carries the stroke record's index.)
C15_PrimIdIsPosition ==
    \A i \in 1..Len(primitives) : PrimIds(primitives[i]) = {i - 1}

\* C17: the transform pushed for the root maps a point (px, py) of a view box
\* (x, y, w, h) to ((px - x) / w, 1 - (py - y) / h): the origin of the view box
\* to (0, 1) and the opposite corner to (1, 0).  (The code violates it for a
\* view box whose origin is not (0, 0).)
C17_ViewMapsBoxToUnitSquare ==
    Len(open) > 0 =>
        LET vb == open[1].view_box
        IN /\ apply(transforms[1], vb[1], vb[2]) = <<Num(0), Num(1)>>
           /\ apply(transforms[1], FAdd(vb[1], vb[3]), FAdd(vb[2], vb[4])) =
                 <<Num(1), Num(0)>>
           /\ \A px \in {Num(0), Num(3)}, py \in {Num(0), Num(5)} :
                 apply(transforms[1], px, py) =
                     <<FMul(FAdd(px, FNeg(vb[1])), FInv(vb[3])),
                       FAdd(Num(1), FNeg(FMul(FAdd(py, FNeg(vb[2])), FInv(vb[4]))))>>

\* pt mapped through ts[i], then ts[i - 1], ..., then ts[1].
RECURSIVE ApplyOneByOne(_, _, _)
ApplyOneByOne(ts, i, pt) ==
    IF i = 0 THEN pt ELSE ApplyOneByOne(ts, i - 1, apply(ts[i], pt[1], pt[2]))

\* The mesh is the raw positions mapped through the node's own transform,
\* then up the stack from its top to the view transform at its bottom.
MappedOneByOne(mesh, positions, path, stack) ==
    /\ Len(mesh) = Len(positions)
    /\ \A k \in 1..Len(positions) :
          mesh[k].position =
              ApplyOneByOne(stack, Len(stack),
                            apply(path.transform, positions[k][1], positions[k][2]))

C18_ComposedTransformStep ==
    PathStep =>
        LET path == node_edge'.node
            n == Len(primitives')
        IN (path.fill.some /\ path.tess = "ok") =>
              /\ MappedOneByOne(primitives'[n].vertices, FillPositions, path, transforms)
              /\ path.stroke.some =>
                    MappedOneByOne(primitives'[n - 1].vertices, StrokePositions,
                                   path, transforms)

\* C18: every vertex of a path node is the raw position mapped through the
\* node's own transform, then through the transforms of its ancestor groups
\* from the innermost outwards, then through the view transform; the single
\* transform load_svg composes gives the same point.
C18_ComposedTransform == [][C18_ComposedTransformStep]_vars

C18_Witness ==
    /\ AtPath
    /\ status = "running"
    /\ node_edge.node.fill.some
    /\ node_edge.node.stroke.some
    /\ Len(transforms) = 3
    /\ transforms[2] # transforms[3]

\* ------------------------------------------------------------------------
\* The constructors of RenderablePath, called on their own
\* ------------------------------------------------------------------------
MaxStops == 257

\* A gradient of n stops (usvg keeps a linear gradient only with two stops or
\* more).
GradientOf(n) ==
    [kind |-> "LinearGradient", id |-> "g1",
     stops |-> [i \in 1..n |-> Stop(Frac(i, n), <<i % 256, 0, 255>>, Num(1))],
     transform |-> new_translate(Num(0), Num(1)),
     x1 |-> Num(0), y1 |-> Num(0), x2 |-> Num(1), y2 |-> Num(0)]

PaintInputs ==
    {[ctor |-> "from_gradient", g |-> GradientOf(n),
      transform |-> new_scale(Num(2), Num(1))] : n \in 2..MaxStops}
    \cup {[ctor |-> "from_color", col |-> c, opacity |-> o] :
             c \in {<<255, 0, 0>>, <<0, 0, 0>>}, o \in {Num(1), Frac(1, 2)}}
    \cup {[ctor |-> "new"]}

InSize == <<2, 3>>

InMesh == tessellate(FillPositions, VertexCtor(0, Transform_default))

Made(r) ==
    /\ rpath = None
    /\ rpath' = Some(r)
    /\ UNCHANGED paint_in
    /\ UNCHANGED <<convVars, loadVars, builderVars, fontVars>>

MakeFromColor ==
    /\ paint_in.ctor = "from_color"
    /\ Made(from_color(InSize, paint_in.col, paint_in.opacity, InMesh))

MakeFromGradient ==
    /\ paint_in.ctor = "from_gradient"
    /\ Made(from_gradient(InSize, paint_in.g, InMesh, paint_in.transform))

MakeNew ==
    /\ paint_in.ctor = "new"
    /\ Made(RenderablePath_new(InSize, InMesh))

InitPaint ==
    /\ paint_in \in PaintInputs
    /\ rpath = None
    /\ ConvIdle
    /\ LoadIdle
    /\ BuilderIdle
    /\ FontIdle

NextPaint ==
    \/ MakeFromColor
    \/ MakeFromGradient
    \/ MakeNew

SpecPaint == InitPaint /\ [][NextPaint]_vars

\* C20: the stop count of a record equals the number of entries of its stop
\* offset list and of its stop colour list, and is 0 exactly when both lists
\* are absent, whatever the number of stops.  (The code violates it from 256
\* stops on: the count is kept in 8 bits.)
C20_StopCountMatchesLists ==
    rpath.some =>
        LET r == rpath.v
        IN /\ r.gradient_pos.some => r.gradient_stops = Len(r.gradient_pos.v)
           /\ r.gradient_colors.some => r.gradient_stops = Len(r.gradient_colors.v)
           /\ r.gradient_stops = 0 <=>
                 (~r.gradient_pos.some /\ ~r.gradient_colors.some)

\* ------------------------------------------------------------------------
\* load_font (ttfload.rs)
\* ------------------------------------------------------------------------
MaxSymbols == 3

FONT_SIZE == 1

Chars == {"a", "b", "c"}

SymbolSeqs == UNION {[1..n -> Chars] : n \in 0..MaxSymbols}

\* u32::from(ch)
CodePoint(ch) == CASE ch = "a" -> 97 [] ch = "b" -> 98 [] OTHER -> 99

\* What the font holds for a glyph id: an embedded image or not, an outline or
\* none, a horizontal advance or none, and whether its outline tessellates.
GlyphData(kind) ==
    [raster |-> kind = "raster",
     svg |-> kind = "svg",
     outline |-> kind \notin {"space", "raster", "svg"},
     tess_ok |-> kind # "tessfail",
     hor_advance |-> IF kind = "noadvance" THEN None ELSE Some(4),
     y_origin |-> IF kind = "space" THEN None ELSE Some(1),
     bbox |-> <<0, 1, 2, 3>>]

\* Fonts that map "a" and "b" and have no glyph for "c".
ParsedFaces ==
    {[kind |-> "face",
      units_per_em |-> 2,
      ascender |-> 3, descender |-> -1, line_gap |-> 0,
      cmap |-> [ch \in Chars |->
                   CASE ch = "a" -> Some(1) [] ch = "b" -> Some(2) [] OTHER -> None],
      glyph |-> [id \in {1, 2} |-> IF id = 1 THEN GlyphData("outline")
                                            ELSE GlyphData(k)]] :
        k \in {"outline", "space", "raster", "svg", "noadvance", "tessfail"}}

FontFiles == {[kind |-> "unreadable"], [kind |-> "malformed"]} \cup ParsedFaces

glyph_index(f, ch) == f.cmap[ch]

GlyphPositions == <<<<Num(0), Num(1)>>, <<Num(2), Num(3)>>>>

\* fs is the state of the call: [g_map, glyphs, status].
FontPanic(fs) == [fs EXCEPT !.status = "panicked"]

\* The body of the first loop as it would be if a character without a glyph
\* were left out of the map.
ResolveChar_SkipMissing(fs, f, ch) ==
    LET id == glyph_index(f, ch)
    IN IF ~id.some
       THEN fs
       ELSE [fs EXCEPT !.g_map =
                [cp \in DOMAIN @ \cup {CodePoint(ch)} |->
                    IF cp = CodePoint(ch) THEN id.v ELSE @[cp]]]

\* The body of the first loop:
\* g_map.insert(u32::from(ch), face.glyph_index(ch).unwrap()).
ResolveChar(fs, f, ch) ==
    LET id == glyph_index(f, ch)
    IN IF ~id.some
       THEN FontPanic(fs)
       ELSE [fs EXCEPT !.g_map =
                [cp \in DOMAIN @ \cup {CodePoint(ch)} |->
                    IF cp = CodePoint(ch) THEN id.v ELSE @[cp]]]

GlyphTransform(f, id) ==
    LET scale == Frac(FONT_SIZE, f.units_per_em)
        y_origin == IF f.glyph[id].y_origin.some THEN f.glyph[id].y_origin.v ELSE 0
    IN append(new_translate(Num(0), Num(-y_origin)), new_scale(scale, scale))

\* The body of the second loop for the entry (cp, id) of g_map.
BuildGlyph(fs, f, cp, id) ==
    LET gd == f.glyph[id]
        scale == Frac(FONT_SIZE, f.units_per_em)
        transform == GlyphTransform(f, id)
        ok == gd.outline
        lo == apply(transform, Num(gd.bbox[1]), Num(gd.bbox[2]))
        hi == apply(transform, Num(gd.bbox[3]), Num(gd.bbox[4]))
        glyph == [advance |-> FMul(Num(gd.hor_advance.v), scale),
                  outline |-> IF ok
                              THEN tessellate(GlyphPositions, VertexCtor(id, transform))
                              ELSE <<>>,
                  bbox |-> IF ok THEN <<lo[1], lo[2], hi[1], hi[2]>>
                                 ELSE <<Num(0), Num(0), Num(0), Num(0)>>]
    IN IF gd.raster \/ gd.svg
       THEN FontPanic(fs)
       ELSE IF ok /\ ~gd.tess_ok
            THEN FontPanic(fs)
            ELSE IF ~gd.hor_advance.some
                 THEN FontPanic(fs)
                 ELSE [fs EXCEPT !.glyphs =
                          [c \in DOMAIN @ \cup {cp} |-> IF c = cp THEN glyph ELSE @[c]]]

MakeFont(f, gl) ==
    LET scale == Frac(FONT_SIZE, f.units_per_em)
    IN [name |-> "font.ttf",
        ascender |-> FMul(Num(f.ascender), scale),
        descender |-> FMul(Num(f.descender), scale),
        line_gap |-> FMul(Num(f.line_gap), scale),
        glyph_map |-> gl]

FontState == [g_map |-> g_map, glyphs |-> glyphs, status |-> fstatus]

FontCommit(fs) ==
    /\ g_map' = fs.g_map
    /\ glyphs' = fs.glyphs
    /\ fstatus' = fs.status
    /\ UNCHANGED <<symbols, face, fresult>>
    /\ UNCHANGED <<convVars, loadVars, builderVars, paintVars>>

\* std::fs::read(..)? and Face::from_slice(..)?: an error is returned to the
\* caller.
FontOpen ==
    /\ fstatus = "init"
    /\ IF face.kind = "face"
       THEN fstatus' = "resolving" /\ fresult' = fresult
       ELSE fstatus' = "returned" /\ fresult' = Some([ok |-> FALSE, err |-> face.kind])
    /\ UNCHANGED <<symbols, face, resolved, g_map, glyphs>>
    /\ UNCHANGED <<convVars, loadVars, builderVars, paintVars>>

\* One iteration of `for ch in symbols.chars()`.
FontResolve ==
    /\ fstatus = "resolving"
    /\ resolved < Len(symbols)
    /\ LET fs == ResolveChar(FontState, face, symbols[resolved + 1])
       IN /\ FontCommit(fs)
          /\ resolved' = IF fs.status = "panicked" THEN resolved ELSE resolved + 1

\* The first loop is over.
FontResolved ==
    /\ fstatus = "resolving"
    /\ resolved = Len(symbols)
    /\ FontCommit([FontState EXCEPT !.status = "building"])
    /\ UNCHANGED resolved

\* One iteration of `for (cp, id) in g_map`: a HashMap yields its entries in
\* any order.
FontBuild ==
    /\ fstatus = "building"
    /\ \E cp \in DOMAIN g_map \ DOMAIN glyphs :
          FontCommit(BuildGlyph(FontState, face, cp, g_map[cp]))
    /\ UNCHANGED resolved

FontReturn ==
    /\ fstatus = "building"
    /\ DOMAIN g_map \ DOMAIN glyphs = {}
    /\ fstatus' = "returned"
    /\ fresult' = Some([ok |-> TRUE, font |-> MakeFont(face, glyphs)])
    /\ UNCHANGED <<symbols, face, resolved, g_map, glyphs>>
    /\ UNCHANGED <<convVars, loadVars, builderVars, paintVars>>

InitFont ==
    /\ symbols \in SymbolSeqs
    /\ face \in FontFiles
    /\ resolved = 0
    /\ g_map = <<>>
    /\ glyphs = <<>>
    /\ fstatus = "init"
    /\ fresult = None
    /\ ConvIdle
    /\ LoadIdle
    /\ BuilderIdle
    /\ PaintIdle

NextFont ==
    \/ FontOpen
    \/ FontResolve
    \/ FontResolved
    \/ FontBuild
    \/ FontReturn

SpecFont == InitFont /\ [][NextFont]_vars

\* The positions in symbols of the characters the font has no glyph for.
Unmapped ==
    IF face.kind # "face" THEN {}
    ELSE {i \in 1..Len(symbols) : ~glyph_index(face, symbols[i]).some}

\* C11: when a requested character has no glyph in the font, load_font
\* returns no Font, wherever the character stands in the string: the first
\* loop panics on reaching it, so the call never gets to build a glyph; and no
\* glyph is built before every requested character has been resolved.
C11_MissingGlyphIsFatal ==
    /\ Unmapped # {} =>
          /\ fstatus \in {"init", "resolving", "panicked"}
          /\ fresult = None
          /\ glyphs = <<>>
          /\ \A i \in Unmapped : resolved < i
          /\ fstatus = "panicked" => (resolved + 1) \in Unmapped
    /\ glyphs # <<>> => resolved = Len(symbols)
    /\ (fresult # None /\ fresult.v.ok) => Unmapped = {}

C11_Witness ==
    /\ fstatus = "panicked"
    /\ Unmapped = {3}
    /\ resolved = 2
    /\ DOMAIN g_map = {97, 98}
    /\ glyphs = <<>>

====
